---- MODULE Spec2Model ----
(***************************************************************************)
(* Model of the rain control plane: the server's bootstrap gate            *)
(* (src/src/server/interface.rs) and the worker's State                    *)
(* (src/src/worker/state.rs).                                              *)
(*                                                                         *)
(* The server side and the worker side are separate processes.  The model  *)
(* has one specification per concern, all over the same variables:         *)
(*   SpecGate       peers calling the bootstrap gate of their connection   *)
(*   SpecTasks      the worker graph: data objects and tasks               *)
(*   SpecSubworkers the worker graph: subworker ids and registrations      *)
(*   SpecWorker     the worker's start / dial / registration handshake     *)
(* and Spec, their composition.                                            *)
(***************************************************************************)
EXTENDS Integers, Sequences, FiniteSets, TLC

\* ------------------------------------------------------------------ bounds
\* Registration calls handled per connection.
MaxCalls == 3
\* Data object ids 1..MaxObjects, task ids 1..MaxTasks, inputs per task.
MaxObjects == 2
MaxTasks == 1
MaxInputs == 2
\* Subworker ids 1..MaxSubworkers, calls of make_subworker_id.
MaxSubworkers == 3
MaxIds == 3
\* Subworker connections the worker accepts.
MaxSessions == 2

\* --------------------------------------------------------------- constants
CLIENT_PROTOCOL_VERSION == 1
WORKER_PROTOCOL_VERSION == 2
\* worker_id.set_port(1234) in register_as_worker
TodoPort == 1234

VARIABLES
    gate,        \* server: connection -> ServerBootstrapImpl {registered, address}
    workers,     \* server: the workers State::add_worker recorded
    replies,     \* connection -> the outcomes of the registration calls it made
    call,        \* the last registration call a peer made (its parameters)
    req,         \* the worker's register_as_worker request in flight, or NoMsg
    resp,        \* the server's response to it in flight, or NoMsg
    state,       \* worker: State {graph, upstream, worker_id}
    pc,          \* worker: position in the start / registration sequence
    fate,        \* worker process: "running", "exited" (exit(1)) or "panicked"
    opts,        \* worker: the arguments start was given
    fs,          \* worker: work-dir tree, bound listeners, ready files created
    sessions,    \* worker: number of subworker RPC sessions spawned
    cell,        \* worker: the borrows outstanding on the RefCell holding State
    sched,       \* worker: number of plan_scheduling invocations
    last,        \* worker: the last State method called and how it ended
    issued       \* worker: the ids make_subworker_id returned, in order

vars == <<gate, workers, replies, call, req, resp, state, pc, fate, opts, fs,
          sessions, cell, sched, last, issued>>

serverVars == <<gate, workers, replies, call>>
rpcVars == <<req, resp>>
lifeVars == <<pc, opts, fs, sessions, cell>>
graphVars == <<state, sched, last, issued>>

\* ------------------------------------------------------------------ values
\* Connections the server has accepted: two other peers, which share a host,
\* and the modelled worker's own connection.
Peers == {1, 2}
WorkerConn == Cardinality(Peers) + 1
Conns == Peers \cup {WorkerConn}
\* listen ports start may be given: 0 asks the OS for one
ListenPorts == {0, 7000}
\* versions a peer may send: the client's, the worker's, and another one
Versions == {CLIENT_PROTOCOL_VERSION, WORKER_PROTOCOL_VERSION,
             WORKER_PROTOCOL_VERSION - 1, WORKER_PROTOCOL_VERSION + 1}
ObjIds == 1..MaxObjects
TaskIds == 1..MaxTasks
SubIds == 1..MaxSubworkers
Sessions == {"s1", "s2"}
DataObjectState == {"Unfinished", "Finished", "Removed"}
NoMsg == [kind |-> "none"]
NoUpstream == "none"

\* HashMap::insert: the new value replaces an entry with the same key.
Put(f, k, v) == [x \in (DOMAIN f) \cup {k} |-> IF x = k THEN v ELSE f[x]]

\* SocketAddr of the peer of connection c; peers 1 and 2 share a host.
PeerAddress(c) == [ip |-> 10 + ((c + 1) \div 2), port |-> 5000 + c]

\* WorkerId <-> its wire form (common::convert); an unset struct is zeroed.
to_capnp(a) == <<a.port, a.ip>>
from_capnp(w) == [ip |-> w[2], port |-> w[1]]
WireDefault == <<0, 0>>
empty_worker_id == [ip |-> 0, port |-> 0]

\* =================================================================== server
\* SocketAddr::set_port
set_port(a, p) == [a EXCEPT !.port = p]

\* Worker::new and State::add_worker of the server state.
Worker_new(worker_id, control) == [id |-> worker_id, control |-> control]
add_worker(ws, w) == ws \cup {w}

Failed(g, ws, e) ==
    [gate |-> g, workers |-> ws, err |-> e,
     results |-> [cap |-> "none", worker_id |-> WireDefault]]

\* register_as_client forgetting to mark the gate registered.
register_as_client_no_flag(g, ws, p) ==
    IF g.registered THEN Failed(g, ws, "AlreadyRegistered")
    ELSE IF ~p.readable THEN Failed(g, ws, "DecodeError")
    ELSE IF p.version # CLIENT_PROTOCOL_VERSION THEN Failed(g, ws, "VersionMismatch")
    ELSE [gate |-> g, workers |-> ws, err |-> "ok",
          results |-> [cap |-> "service", worker_id |-> WireDefault]]

\* register_as_client marking the gate registered before it checks the version.
register_as_client_flag_first(g, ws, p) ==
    IF g.registered THEN Failed(g, ws, "AlreadyRegistered")
    ELSE IF ~p.readable THEN Failed(g, ws, "DecodeError")
    ELSE LET g1 == [g EXCEPT !.registered = TRUE]
         IN  IF p.version # CLIENT_PROTOCOL_VERSION THEN Failed(g1, ws, "VersionMismatch")
             ELSE [gate |-> g1, workers |-> ws, err |-> "ok",
                   results |-> [cap |-> "service", worker_id |-> WireDefault]]

\* ServerBootstrapImpl::register_as_client
register_as_client(g, ws, p) ==
    IF g.registered THEN Failed(g, ws, "AlreadyRegistered")
    ELSE IF ~p.readable THEN Failed(g, ws, "DecodeError")
    ELSE IF p.version # CLIENT_PROTOCOL_VERSION THEN Failed(g, ws, "VersionMismatch")
    ELSE [gate |-> [g EXCEPT !.registered = TRUE], workers |-> ws, err |-> "ok",
          results |-> [cap |-> "service", worker_id |-> WireDefault]]

\* register_as_worker marking the gate registered before it checks the version.
register_as_worker_flag_first(g, ws, p) ==
    IF g.registered THEN Failed(g, ws, "AlreadyRegistered")
    ELSE IF ~p.readable THEN Failed(g, ws, "DecodeError")
    ELSE LET g1 == [g EXCEPT !.registered = TRUE]
             worker_id == set_port(g.address, TodoPort)
         IN  IF p.version # WORKER_PROTOCOL_VERSION THEN Failed(g1, ws, "VersionMismatch")
             ELSE IF ~p.control_ok THEN Failed(g1, ws, "DecodeError")
             ELSE [gate |-> g1,
                   workers |-> add_worker(ws, Worker_new(worker_id, p.control)),
                   err |-> "ok",
                   results |-> [cap |-> "upstream", worker_id |-> WireDefault]]

\* ServerBootstrapImpl::register_as_worker.  The results message starts out
\* zeroed and the handler sets its upstream field only.
register_as_worker(g, ws, p) ==
    IF g.registered THEN Failed(g, ws, "AlreadyRegistered")
    ELSE IF ~p.readable THEN Failed(g, ws, "DecodeError")
    ELSE IF p.version # WORKER_PROTOCOL_VERSION THEN Failed(g, ws, "VersionMismatch")
    ELSE LET g1 == [g EXCEPT !.registered = TRUE]
             worker_id == set_port(g.address, TodoPort)
         IN  IF ~p.control_ok THEN Failed(g1, ws, "DecodeError")
             ELSE [gate |-> g1,
                   workers |-> add_worker(ws, Worker_new(worker_id, p.control)),
                   err |-> "ok",
                   results |-> [cap |-> "upstream", worker_id |-> WireDefault]]

Register(role, g, ws, p) ==
    IF role = "client" THEN register_as_client(g, ws, p)
    ELSE register_as_worker(g, ws, p)

\* A peer calls register_as_client / register_as_worker on its connection.
PeerRegisters(c, role, p) ==
    /\ Len(replies[c]) < MaxCalls
    /\ LET r == Register(role, gate[c], workers, p)
       IN  /\ gate' = [gate EXCEPT ![c] = r.gate]
           /\ workers' = r.workers
           /\ replies' = [replies EXCEPT ![c] = Append(@, r.err)]
           /\ call' = [conn |-> c, role |-> role, readable |-> p.readable,
                       version |-> p.version, control_ok |-> p.control_ok]
    /\ UNCHANGED <<rpcVars, lifeVars, graphVars, fate>>

PeerParams(c) ==
    [readable : BOOLEAN, version : Versions, control_ok : BOOLEAN,
     control : {c}, address : {to_capnp([ip |-> PeerAddress(c).ip, port |-> 7000 + c])}]

NextGate ==
    \E c \in Peers, role \in {"client", "worker"} :
        \E p \in PeerParams(c) : PeerRegisters(c, role, p)

\* ============================================================= worker graph
Ret(st, how, n) == [state |-> st, ret |-> how, planned |-> n]

\* DataObjectRef::is_finished
is_finished(g, o) == g.objects[o] = "Finished"

\* DataObjectRef::new: the id must be fresh in the graph.
DataObjectRef_new(g, id, s) ==
    IF id \in DOMAIN g.objects THEN [graph |-> g, ret |-> "DuplicateId"]
    ELSE [graph |-> [g EXCEPT !.objects = Put(@, id, s)], ret |-> "ok"]

\* TaskRef::new: the task enters the graph, waiting.
TaskRef_new(g, id, inputs, wait_for) ==
    [g EXCEPT !.tasks = Put(@, id, [inputs |-> inputs, wait_set |-> wait_for,
                                    status |-> "Waiting"])]

\* TaskRef::set_ready
set_ready(g, t) == [g EXCEPT !.tasks[t].status = "Ready"]

\* Graph::make_id: the next value of the graph's counter.
make_id(g) == [graph |-> [g EXCEPT !.id_counter = @ + 1], id |-> g.id_counter + 1]

\* State::plan_scheduling: unimplemented!() panics.
plan_scheduling(st) == Ret(st, "panic", 1)

\* set_task_as_ready marking the task without invoking the scheduler.
set_task_as_ready_no_plan(st, t) == Ret([st EXCEPT !.graph = set_ready(@, t)], "ok", 0)

\* State::set_task_as_ready
set_task_as_ready(st, t) == plan_scheduling([st EXCEPT !.graph = set_ready(@, t)])


\* add_task with the filter of wait_for inverted.
add_task_filter_inverted(st, id, inputs) ==
    LET wait_for == {o \in {inputs[i] : i \in DOMAIN inputs} : is_finished(st.graph, o)}
        is_ready == wait_for = {}
        st1 == [st EXCEPT !.graph = TaskRef_new(@, id, inputs, wait_for)]
    IN  IF is_ready THEN set_task_as_ready(st1, id) ELSE Ret(st1, "ok", 0)

\* add_task with wait_for collected without the filter.
add_task_no_filter(st, id, inputs) ==
    LET wait_for == {inputs[i] : i \in DOMAIN inputs}
        is_ready == wait_for = {}
        st1 == [st EXCEPT !.graph = TaskRef_new(@, id, inputs, wait_for)]
    IN  IF is_ready THEN set_task_as_ready(st1, id) ELSE Ret(st1, "ok", 0)

\* State::add_task
add_task(st, id, inputs) ==
    LET wait_for == {o \in {inputs[i] : i \in DOMAIN inputs} : ~is_finished(st.graph, o)}
        is_ready == wait_for = {}
        st1 == [st EXCEPT !.graph = TaskRef_new(@, id, inputs, wait_for)]
    IN  IF is_ready THEN set_task_as_ready(st1, id) ELSE Ret(st1, "ok", 0)

\* State::add_subworker: graph.subworkers.insert(subworker_id, subworker)
add_subworker(st, sw) == Ret([st EXCEPT !.graph.subworkers = Put(@, sw.id, sw)], "ok", 0)

\* add_dataobject inserting without looking for the id.
add_dataobject_overwrite(st, id, s) ==
    Ret([st EXCEPT !.graph.objects = Put(@, id, s)], "ok", 0)

\* State::add_dataobject
add_dataobject(st, id, s) ==
    LET r == DataObjectRef_new(st.graph, id, s)
    IN  Ret([st EXCEPT !.graph = r.graph], r.ret, 0)

\* make_subworker_id handing out an id without keeping the advanced counter.
make_subworker_id_stale(st) == [state |-> st, id |-> make_id(st.graph).id]

\* State::make_subworker_id
make_subworker_id(st) ==
    LET r == make_id(st.graph)
    IN  [state |-> [st EXCEPT !.graph = r.graph], id |-> r.id]

\* A data object finishes: the tasks waiting for it drop it from their
\* wait-set, those left with an empty wait-set become Ready, and the
\* scheduler is invoked once the ready-set has widened.
object_finished(st, o) ==
    LET g == st.graph
        newly == {t \in DOMAIN g.tasks : g.tasks[t].wait_set = {o}}
        dropped == [t \in DOMAIN g.tasks |->
                        [g.tasks[t] EXCEPT !.wait_set = @ \ {o},
                                           !.status = IF t \in newly THEN "Ready" ELSE @]]
        st1 == [st EXCEPT !.graph.objects[o] = "Finished", !.graph.tasks = dropped]
    IN  IF newly # {} THEN plan_scheduling(st1) ELSE Ret(st1, "ok", 0)

alive == fate = "running"

SeqsUpTo(S, n) == UNION {[1..k -> S] : k \in 0..n}

Called(op, id, arg, r) ==
    /\ state' = r.state
    /\ sched' = sched + r.planned
    /\ fate' = IF r.ret = "panic" THEN "panicked" ELSE fate
    /\ last' = [op |-> op, id |-> id, arg |-> arg, ret |-> r.ret]

AddDataobject(id, s) ==
    /\ alive
    /\ Called("add_dataobject", id, s, add_dataobject(state, id, s))
    /\ UNCHANGED <<serverVars, rpcVars, lifeVars, issued>>

\* Task ids are issued by the server and are fresh; the inputs are handles of
\* objects of the graph.
AddTask(id, inputs) ==
    /\ alive
    /\ id \notin DOMAIN state.graph.tasks
    /\ Called("add_task", id, "", add_task(state, id, inputs))
    /\ UNCHANGED <<serverVars, rpcVars, lifeVars, issued>>

FinishObject(o) ==
    /\ alive
    /\ o \in DOMAIN state.graph.objects
    /\ state.graph.objects[o] = "Unfinished"
    /\ Called("finish", o, "", object_finished(state, o))
    /\ UNCHANGED <<serverVars, rpcVars, lifeVars, issued>>

AddSubworker(id, session) ==
    /\ alive
    /\ Called("add_subworker", id, session,
              add_subworker(state, [id |-> id, session |-> session]))
    /\ UNCHANGED <<serverVars, rpcVars, lifeVars, issued>>

MakeSubworkerId ==
    /\ alive
    /\ Len(issued) < MaxIds
    /\ LET r == make_subworker_id(state)
       IN  /\ state' = r.state
           /\ issued' = Append(issued, r.id)
           /\ last' = [op |-> "make_subworker_id", id |-> r.id, arg |-> "", ret |-> "ok"]
    /\ UNCHANGED <<serverVars, rpcVars, lifeVars, sched, fate>>

NextTasks ==
    \/ \E id \in ObjIds, s \in DataObjectState : AddDataobject(id, s)
    \/ \E id \in TaskIds :
           \E inputs \in SeqsUpTo(DOMAIN state.graph.objects, MaxInputs) :
               AddTask(id, inputs)
    \/ \E o \in ObjIds : FinishObject(o)

NextSubworkers ==
    \/ \E id \in SubIds, session \in Sessions : AddSubworker(id, session)
    \/ MakeSubworkerId

\* ========================================================= worker lifecycle
\* The RefCell in StateRef: get() takes a shared borrow, get_mut() the
\* exclusive one; a borrow the cell cannot grant panics (conflict).
borrow(cl, op) ==
    CASE op = "get" ->
             IF cl.excl THEN [cl EXCEPT !.conflict = TRUE]
             ELSE [cl EXCEPT !.shared = @ + 1]
      [] op = "get_mut" ->
             IF cl.excl \/ cl.shared > 0 THEN [cl EXCEPT !.conflict = TRUE]
             ELSE [cl EXCEPT !.excl = TRUE]
      [] op = "drop" -> [cl EXCEPT !.shared = @ - 1]
      [] op = "drop_mut" -> [cl EXCEPT !.excl = FALSE]

\* One turn of a callback: its borrows and drops in program order, up to a
\* conflict.
RECURSIVE Turn(_, _)
Turn(cl, trace) ==
    IF trace = <<>> \/ cl.conflict THEN cl
    ELSE Turn(borrow(cl, Head(trace)), Tail(trace))

\* start: self.get().handle.clone(), the block creating the work-dir tree,
\* self.get().subworker_listen_path(); each temporary dropped at once.
start_borrows == <<"get", "drop", "get", "drop", "get", "drop">>

\* on_connected_to_server keeping its `inner` borrow alive in the spawned future.
on_connected_to_server_borrows_held == <<"get">>

\* on_connected_to_server: `let inner = self.get()` for the two spawns,
\* dropped at the end of the function.
on_connected_to_server_borrows == <<"get", "drop">>

\* the and_then closure: `let mut inner = state.get_mut()`, dropped when the
\* closure returns.
registration_response_borrows == <<"get_mut", "drop_mut">>

\* on_subworker_connection: `let inner = self.get()` for the spawn.
on_subworker_connection_borrows == <<"get", "drop">>

\* on_connection never touches the cell: it panics before the commented-out
\* borrow.
on_connection_borrows == <<>>

\* TcpListener::bind and local_addr: port 0 is replaced by one the OS picks.
local_port(requested) == IF requested = 0 THEN 40000 ELSE requested

\* start advertising the address it was given, without the bound port.
Start_keeps_port(ready_file, port, env) ==
    /\ alive
    /\ pc = "new"
    /\ fs' = [fs EXCEPT !.dirs = env # "mkdir_fails",
                        !.unix = env \in {"ok", "tcp_bind_fails"},
                        !.tcp = IF env = "ok" THEN local_port(port) ELSE 0]
    /\ IF env = "ok"
       THEN /\ pc' = "connecting"
            /\ opts' = [ready_file |-> ready_file, requested_port |-> port,
                        listen_address |-> set_port(PeerAddress(WorkerConn), port)]
            /\ fate' = fate
       ELSE /\ fate' = "panicked"
            /\ UNCHANGED <<pc, opts>>
    /\ cell' = Turn(cell, start_borrows)
    /\ UNCHANGED <<serverVars, rpcVars, graphVars, sessions>>

\* StateRef::start: the work-dir tree, the Unix listener, the TCP listener,
\* then the dial of the server.  env is what the OS answers: any mkdir or
\* bind that fails panics (unwrap / expect).
Start(ready_file, port, env) ==
    /\ alive
    /\ pc = "new"
    /\ fs' = [fs EXCEPT !.dirs = env # "mkdir_fails",
                        !.unix = env \in {"ok", "tcp_bind_fails"},
                        !.tcp = IF env = "ok" THEN local_port(port) ELSE 0]
    /\ IF env = "ok"
       THEN /\ pc' = "connecting"
            /\ opts' = [ready_file |-> ready_file, requested_port |-> port,
                        listen_address |-> set_port(PeerAddress(WorkerConn),
                                                    local_port(port))]
            /\ fate' = fate
       ELSE /\ fate' = "panicked"
            /\ UNCHANGED <<pc, opts>>
    /\ cell' = Turn(cell, start_borrows)
    /\ UNCHANGED <<serverVars, rpcVars, graphVars, sessions>>

\* The connect error handler logging the error without leaving the process.
DialFails_no_exit ==
    /\ alive
    /\ pc = "connecting"
    /\ pc' = "dial_failed"
    /\ UNCHANGED <<serverVars, rpcVars, opts, fs, sessions, cell, graphVars, fate>>

\* TcpStream::connect fails: error!(...); exit(1).
DialFails ==
    /\ alive
    /\ pc = "connecting"
    /\ pc' = "dial_failed"
    /\ fate' = "exited"
    /\ UNCHANGED <<serverVars, rpcVars, opts, fs, sessions, cell, graphVars>>

RegisterRequest ==
    [kind |-> "register_as_worker", version |-> WORKER_PROTOCOL_VERSION,
     control |-> WorkerConn, address |-> to_capnp(opts.listen_address)]

\* on_connected_to_server creating the ready file as soon as it is connected.
OnConnectedToServer_early_file ==
    /\ alive
    /\ pc = "connecting"
    /\ req' = RegisterRequest
    /\ pc' = "registering"
    /\ fs' = IF opts.ready_file THEN [fs EXCEPT !.ready_files = @ + 1] ELSE fs
    /\ cell' = Turn(cell, on_connected_to_server_borrows)
    /\ UNCHANGED <<serverVars, resp, opts, sessions, graphVars, fate>>

\* on_connected_to_server storing the bootstrap capability as upstream before
\* the server has answered.
OnConnectedToServer_eager_upstream ==
    /\ alive
    /\ pc = "connecting"
    /\ req' = RegisterRequest
    /\ pc' = "registering"
    /\ cell' = Turn(cell, on_connected_to_server_borrows)
    /\ state' = [state EXCEPT !.upstream = "bootstrap"]
    /\ UNCHANGED <<serverVars, resp, opts, fs, sessions, sched, last, issued, fate>>

\* StateRef::on_connected_to_server, up to the request being sent.
OnConnectedToServer ==
    /\ alive
    /\ pc = "connecting"
    /\ req' = RegisterRequest
    /\ pc' = "registering"
    /\ cell' = Turn(cell, on_connected_to_server_borrows)
    /\ UNCHANGED <<serverVars, resp, opts, fs, sessions, graphVars, fate>>

\* The server's gate of the worker's connection handles the request.
ServerHandlesRequest ==
    /\ req.kind = "register_as_worker"
    /\ LET c == WorkerConn
           p == [readable |-> TRUE, version |-> req.version, control_ok |-> TRUE,
                 control |-> req.control, address |-> req.address]
           r == register_as_worker(gate[c], workers, p)
       IN  /\ gate' = [gate EXCEPT ![c] = r.gate]
           /\ workers' = r.workers
           /\ replies' = [replies EXCEPT ![c] = Append(@, r.err)]
           /\ call' = [conn |-> c, role |-> "worker", readable |-> TRUE,
                       version |-> p.version, control_ok |-> TRUE]
           /\ resp' = [kind |-> "response", err |-> r.err, results |-> r.results]
    /\ req' = NoMsg
    /\ UNCHANGED <<lifeVars, graphVars, fate>>

\* The connection breaks while the request or the response is in flight.
TransportFails ==
    /\ alive
    /\ pc = "registering"
    /\ req.kind # "none" \/ (resp.kind # "none" /\ resp.err = "ok")
    /\ req' = NoMsg
    /\ resp' = [kind |-> "response", err |-> "Disconnected",
                results |-> [cap |-> "none", worker_id |-> WireDefault]]
    /\ UNCHANGED <<serverVars, lifeVars, graphVars, fate>>

\* The future on_connected_to_server spawned: the response's and_then
\* closure, or map_err's panic.
OnRegistrationResponse ==
    /\ alive
    /\ pc = "registering"
    /\ resp.kind = "response"
    /\ resp' = NoMsg
    /\ IF resp.err = "ok" /\ resp.results.cap # "none"
       THEN /\ state' = [state EXCEPT !.upstream = resp.results.cap,
                                      !.worker_id = from_capnp(resp.results.worker_id)]
            /\ fs' = IF opts.ready_file THEN [fs EXCEPT !.ready_files = @ + 1] ELSE fs
            /\ pc' = "registered"
            /\ cell' = Turn(cell, registration_response_borrows)
            /\ fate' = fate
       ELSE /\ fate' = "panicked"
            /\ UNCHANGED <<state, fs, pc, cell>>
    /\ UNCHANGED <<serverVars, req, opts, sessions, sched, last, issued>>

\* on_subworker_connection entering the connecting subworker into the graph
\* before it has registered.
OnSubworkerConnection_registers ==
    /\ alive
    /\ fs.unix
    /\ sessions < MaxSessions
    /\ sessions' = sessions + 1
    /\ cell' = Turn(cell, on_subworker_connection_borrows)
    /\ last' = [op |-> "on_subworker_connection", id |-> sessions + 1, arg |-> "",
                ret |-> "ok"]
    /\ state' = add_subworker(state, [id |-> sessions + 1, session |-> "s1"]).state
    /\ UNCHANGED <<serverVars, rpcVars, pc, opts, fs, sched, issued, fate>>

\* StateRef::on_subworker_connection: a new RPC session over the stream, with
\* a SubworkerUpstream as its bootstrap, spawned on the event loop.
OnSubworkerConnection ==
    /\ alive
    /\ fs.unix
    /\ sessions < MaxSessions
    /\ sessions' = sessions + 1
    /\ cell' = Turn(cell, on_subworker_connection_borrows)
    /\ last' = [op |-> "on_subworker_connection", id |-> sessions + 1, arg |-> "",
                ret |-> "ok"]
    /\ UNCHANGED <<serverVars, rpcVars, pc, opts, fs, state, sched, issued, fate>>

\* StateRef::on_connection: panic!("Not implemented yet").
OnConnection ==
    /\ alive
    /\ fs.tcp # 0
    /\ cell' = Turn(cell, on_connection_borrows)
    /\ fate' = "panicked"
    /\ last' = [op |-> "on_connection", id |-> 0, arg |-> "", ret |-> "panic"]
    /\ UNCHANGED <<serverVars, rpcVars, pc, opts, fs, sessions, state, sched, issued>>

NextWorker ==
    \/ \E ready_file \in BOOLEAN, port \in ListenPorts :
           \E env \in {"ok", "mkdir_fails", "unix_bind_fails", "tcp_bind_fails"} :
               Start(ready_file, port, env)
    \/ DialFails
    \/ OnConnectedToServer
    \/ ServerHandlesRequest
    \/ TransportFails
    \/ OnRegistrationResponse
    \/ OnSubworkerConnection
    \/ OnConnection

\* =================================================================== start
Graph_new == [objects |-> <<>>, tasks |-> <<>>, subworkers |-> <<>>, id_counter |-> 0]

\* ServerBootstrapImpl::new for every connection, StateRef::new for the worker.
Init ==
    /\ gate = [c \in Conns |-> [registered |-> FALSE, address |-> PeerAddress(c)]]
    /\ workers = {}
    /\ replies = [c \in Conns |-> <<>>]
    /\ call = [conn |-> WorkerConn, role |-> "none", readable |-> TRUE, version |-> 0,
               control_ok |-> TRUE]
    /\ req = NoMsg
    /\ resp = NoMsg
    /\ state = [graph |-> Graph_new, upstream |-> NoUpstream,
                worker_id |-> empty_worker_id]
    /\ pc = "new"
    /\ fate = "running"
    /\ opts = [ready_file |-> FALSE, requested_port |-> 0,
               listen_address |-> empty_worker_id]
    /\ fs = [dirs |-> FALSE, unix |-> FALSE, tcp |-> 0, ready_files |-> 0]
    /\ sessions = 0
    /\ cell = [shared |-> 0, excl |-> FALSE, conflict |-> FALSE]
    /\ sched = 0
    /\ last = [op |-> "none", id |-> 0, arg |-> "", ret |-> "none"]
    /\ issued = <<>>

SpecGate == Init /\ [][NextGate]_vars
SpecTasks == Init /\ [][NextTasks]_vars
SpecSubworkers == Init /\ [][NextSubworkers]_vars
SpecWorker == Init /\ [][NextWorker]_vars

\* The subworker side of the worker: start binds the Unix socket, subworkers
\* connect to it, ids are drawn and subworkers are entered into the graph.
NextSessions ==
    \/ \E ready_file \in BOOLEAN, port \in ListenPorts :
           \E env \in {"ok", "mkdir_fails", "unix_bind_fails", "tcp_bind_fails"} :
               Start(ready_file, port, env)
    \/ OnSubworkerConnection
    \/ \E id \in SubIds, session \in Sessions : AddSubworker(id, session)
    \/ MakeSubworkerId

SpecSessions == Init /\ [][NextSessions]_vars

\* start in an environment where every step can succeed: a fresh work_dir,
\* free sockets, a reachable server and a transport that stays up.  The event
\* loop runs every callback that stays ready; peers may connect to either
\* listener and the worker may draw subworker ids meanwhile.
NextWorkerFair ==
    \/ \E ready_file \in BOOLEAN, port \in ListenPorts : Start(ready_file, port, "ok")
    \/ OnConnectedToServer
    \/ ServerHandlesRequest
    \/ OnRegistrationResponse
    \/ OnSubworkerConnection
    \/ OnConnection
    \/ MakeSubworkerId

EventLoopFairness ==
    /\ WF_vars(\E ready_file \in BOOLEAN, port \in ListenPorts :
                   Start(ready_file, port, "ok"))
    /\ WF_vars(OnConnectedToServer)
    /\ WF_vars(ServerHandlesRequest)
    /\ WF_vars(OnRegistrationResponse)

SpecWorkerFair == Init /\ [][NextWorkerFair]_vars /\ EventLoopFairness

Next == NextGate \/ NextTasks \/ NextSubworkers \/ NextWorker
Spec == Init /\ [][Next]_vars

\* =================================================================== claims
Range(q) == {q[i] : i \in DOMAIN q}
Tasks == state.graph.tasks
Objects == state.graph.objects
ExpectedVersion(role) ==
    IF role = "client" THEN CLIENT_PROTOCOL_VERSION ELSE WORKER_PROTOCOL_VERSION

\* C1: on one gate at most one registration call succeeds; every call after
\* the successful one fails with AlreadyRegistered, whatever its role and
\* version, and leaves the gates and the server's worker set as they were.
C1_OnceOk ==
    \A c \in Conns : \A i, j \in DOMAIN replies[c] :
        (i < j /\ replies[c][i] = "ok") => replies[c][j] = "AlreadyRegistered"
C1_LaterCallFrame ==
    \A c \in Conns :
        ("ok" \in Range(replies[c]) /\ replies'[c] # replies[c])
            => /\ replies'[c] = Append(replies[c], "AlreadyRegistered")
               /\ gate' = gate
               /\ workers' = workers
C1_SingleRegistration == [](C1_OnceOk) /\ [][C1_LaterCallFrame]_vars
\* A call that was valid in itself (readable, right version) refused after an
\* earlier success on the same connection.
C1_Witness ==
    \E c \in Peers :
        /\ Len(replies[c]) >= 2
        /\ replies[c][1] = "ok"
        /\ replies[c][Len(replies[c])] = "AlreadyRegistered"
        /\ call.conn = c /\ call.readable /\ call.control_ok
        /\ call.version = ExpectedVersion(call.role)

\* C2: a call with a readable version other than the one its role expects, on
\* a gate not yet registered, fails with VersionMismatch and changes neither
\* the gate's registered flag nor the server's workers.
C2_MismatchStep ==
    \A c \in Conns :
        ( /\ replies'[c] # replies[c]
          /\ ~gate[c].registered
          /\ call'.readable
          /\ call'.version # ExpectedVersion(call'.role) )
            => /\ replies'[c] = Append(replies[c], "VersionMismatch")
               /\ gate' = gate
               /\ ~gate'[c].registered
               /\ workers' = workers
C2_VersionMismatch == [][C2_MismatchStep]_vars
C2_Witness ==
    /\ call.role = "worker"
    /\ call.readable
    /\ call.version # WORKER_PROTOCOL_VERSION
    /\ replies[call.conn] = <<"VersionMismatch">>
    /\ ~gate[call.conn].registered
    /\ workers = {}

\* C3: a task of the graph is Ready exactly when every one of its inputs is
\* Finished.
C3_ReadyIffInputsFinished ==
    \A t \in DOMAIN Tasks :
        (Tasks[t].status = "Ready")
            <=> (\A o \in Range(Tasks[t].inputs) : Objects[o] = "Finished")
C3_Witness ==
    /\ last.op = "add_task"
    /\ Tasks[last.id].status = "Ready"
    /\ Cardinality(Range(Tasks[last.id].inputs)) = 2
    /\ \A o \in Range(Tasks[last.id].inputs) : Objects[o] = "Finished"

\* C4 (as claimed): add_task with inputs that are all Finished returns
\* normally, with the task in the graph and Ready.
C4_ReturnsReady ==
    ( /\ last.op = "add_task"
      /\ \A o \in Range(Tasks[last.id].inputs) : Objects[o] = "Finished" )
        => /\ last.ret = "ok"
           /\ last.id \in DOMAIN Tasks
           /\ Tasks[last.id].status = "Ready"

\* C5: the ready file is created at most once, only when start was given one,
\* and only by the step that processes a successful registration response and
\* stores upstream and worker_id; never when the dial or the RPC failed.
C5_ReadyFileState ==
    /\ fs.ready_files <= 1
    /\ fs.ready_files > 0 =>
           /\ opts.ready_file
           /\ pc = "registered"
           /\ state.upstream # NoUpstream
           /\ fate # "exited"
C5_ReadyFileStep ==
    fs'.ready_files # fs.ready_files =>
        /\ pc = "registering" /\ pc' = "registered"
        /\ resp.kind = "response" /\ resp.err = "ok"
        /\ state'.upstream = resp.results.cap
        /\ state'.worker_id = from_capnp(resp.results.worker_id)
C5_ReadyFileAfterCommit == [](C5_ReadyFileState) /\ [][C5_ReadyFileStep]_vars
C5_Witness ==
    /\ fs.ready_files = 1
    /\ pc = "registered"
    /\ state.upstream = "upstream"

\* C6: a task added with an input that is not Finished is Waiting on return,
\* its wait_set exactly its inputs that are not Finished; the step in which
\* the last of them finishes makes it Ready and invokes plan_scheduling.
C6_WaitSet ==
    \A t \in DOMAIN Tasks :
        LET pending == {o \in Range(Tasks[t].inputs) : Objects[o] # "Finished"}
        IN  /\ Tasks[t].wait_set = pending
            /\ pending # {} => Tasks[t].status = "Waiting"
            /\ (last.op = "add_task" /\ last.id = t /\ pending # {}) => last.ret = "ok"
C6_LastInputStep ==
    \A t \in DOMAIN Tasks : \A o \in DOMAIN Objects :
        ( /\ Tasks[t].status = "Waiting"
          /\ Tasks[t].wait_set = {o}
          /\ Objects[o] # "Finished"
          /\ state'.graph.objects[o] = "Finished" )
            => /\ state'.graph.tasks[t].status = "Ready"
               /\ sched' = sched + 1
C6_WaitingThenReady == [](C6_WaitSet) /\ [][C6_LastInputStep]_vars
C6_Witness ==
    /\ last.op = "finish"
    /\ sched = 1
    /\ \E t \in DOMAIN Tasks :
        /\ Tasks[t].status = "Ready"
        /\ Cardinality(Range(Tasks[t].inputs)) = 2
        /\ last.id \in Range(Tasks[t].inputs)

\* C7: the ids make_subworker_id returns are strictly increasing.
C7_IdsIncrease ==
    \A i, j \in DOMAIN issued : i < j => issued[i] < issued[j]
C7_Witness ==
    /\ Len(issued) >= 3
    /\ DOMAIN state.graph.subworkers # {}

\* C8: add_dataobject with a fresh id inserts the object, so that a lookup by
\* the id finds it; with an id already in the graph it fails with DuplicateId
\* and leaves the graph, and the first object, as they were.
C8_AddStep ==
    last'.op = "add_dataobject" =>
        IF last'.id \in DOMAIN Objects
        THEN /\ last'.ret = "DuplicateId"
             /\ state' = state
        ELSE /\ last'.ret = "ok"
             /\ last'.id \in DOMAIN state'.graph.objects
             /\ state'.graph.objects[last'.id] = last'.arg
             /\ \A o \in DOMAIN Objects : state'.graph.objects[o] = Objects[o]
C8_AddDataobject == [][C8_AddStep]_vars
C8_Witness ==
    /\ last.op = "add_dataobject"
    /\ last.ret = "DuplicateId"
    /\ last.id \in DOMAIN Objects
    /\ Objects[last.id] # last.arg

\* C9 (as claimed): add_subworker with an id that is already a key of
\* graph.subworkers fails with DuplicateId and leaves the entry in place.
C9_DuplicateStep ==
    (last'.op = "add_subworker" /\ last'.id \in DOMAIN state.graph.subworkers)
        => /\ last'.ret = "DuplicateId"
           /\ state'.graph.subworkers = state.graph.subworkers
C9_DuplicateSubworkerFails == [][C9_DuplicateStep]_vars

\* C10 (as claimed): once registered, the worker's worker_id is not the empty
\* sentinel and is the WorkerId the server recorded for this worker.
C10_AssignedWorkerId ==
    pc = "registered" =>
        /\ state.worker_id # empty_worker_id
        /\ \E w \in workers :
               /\ w.control = WorkerConn
               /\ w.id = state.worker_id

C11_GateOpenAfterMismatch ==
    \A c \in Conns :
        (replies[c] # <<>> /\ replies[c][Len(replies[c])] = "VersionMismatch")
            => ~gate[c].registered
C11_RetryStep ==
    \A c \in Conns :
        ( /\ "VersionMismatch" \in Range(replies[c])
          /\ ~gate[c].registered
          /\ replies'[c] # replies[c]
          /\ call'.readable /\ call'.control_ok
          /\ call'.version = ExpectedVersion(call'.role) )
            => /\ replies'[c] = Append(replies[c], "ok")
               /\ gate'[c].registered
C12_PeerEventsHandled ==
    last.op \in {"on_connection", "on_subworker_connection"} => last.ret = "ok"

\* C13: when the dial of the server fails the worker process exits (non-zero
\* status) and does not retry: no registration request was or is ever sent,
\* upstream stays absent, worker_id stays empty and no ready file is created.
C13_DialFailedState ==
    pc = "dial_failed" =>
        /\ fate = "exited"
        /\ req = NoMsg /\ resp = NoMsg
        /\ replies[WorkerConn] = <<>>
        /\ ~gate[WorkerConn].registered
        /\ state.upstream = NoUpstream
        /\ state.worker_id = empty_worker_id
        /\ fs.ready_files = 0
C13_AfterExitStep ==
    pc = "dial_failed" =>
        /\ pc' = pc /\ fate' = fate
        /\ req' = req /\ resp' = resp
        /\ state' = state /\ fs' = fs
C13_DialFailureExits == [](C13_DialFailedState) /\ [][C13_AfterExitStep]_vars
C13_Witness ==
    /\ pc = "dial_failed"
    /\ fate = "exited"
    /\ fs.unix /\ fs.tcp # 0
    /\ opts.ready_file

\* C14: every step that moves a task to Ready invokes plan_scheduling once in
\* that same step, on the state in which the task is already Ready; the
\* scheduler is invoked by no other step, and add_task does not invoke it for
\* a task whose wait-set is non-empty.
C14_BecameReady(t) ==
    /\ t \in DOMAIN state'.graph.tasks
    /\ state'.graph.tasks[t].status = "Ready"
    /\ (t \in DOMAIN state.graph.tasks => state.graph.tasks[t].status # "Ready")
C14_ReadyStep ==
    /\ (\E t \in TaskIds : C14_BecameReady(t)) <=> (sched' = sched + 1)
    /\ sched' \in {sched, sched + 1}
    /\ ( /\ last' # last
         /\ last'.op = "add_task"
         /\ state'.graph.tasks[last'.id].wait_set # {} )
            => /\ sched' = sched
               /\ state'.graph.tasks[last'.id].status = "Waiting"
C14_ReadyInvokesScheduler == [][C14_ReadyStep]_vars
C14_Witness ==
    /\ last.op = "add_task"
    /\ sched = 1
    /\ Tasks[last.id].inputs = <<>>
    /\ Tasks[last.id].status = "Ready"

\* C15: under fairness of the event loop, once start has run with a fresh
\* work_dir, a reachable server and the matching protocol version, the worker
\* eventually has the subworker listener bound, upstream set and (if start was
\* given one) the ready file created; the steps come in the order work-dir
\* tree, Unix listener, TCP listener, dial, register, ready file.
C15_StartOrder ==
    /\ fs.unix => fs.dirs
    /\ fs.tcp # 0 => fs.unix
    /\ pc # "new" => fs.tcp # 0
    /\ (req # NoMsg \/ resp # NoMsg) => pc = "registering"
    /\ fs.ready_files > 0 => pc = "registered"
C15_Registered ==
    /\ fs.unix
    /\ state.upstream # NoUpstream
    /\ opts.ready_file => fs.ready_files = 1
C15_EventuallyRegistered ==
    [](C15_StartOrder) /\ ((pc = "connecting") ~> C15_Registered)

\* C16: the listen address sent in register_as_worker is the address of the
\* already bound worker-to-worker listener with the port the OS resolved: it
\* is the bound port and never 0, also when start was given port 0.
C16_AdvertisedBoundPort ==
    req.kind = "register_as_worker" =>
        /\ fs.tcp # 0
        /\ from_capnp(req.address).port = fs.tcp
        /\ from_capnp(req.address).port # 0
        /\ from_capnp(req.address).ip = PeerAddress(WorkerConn).ip
C16_Witness ==
    /\ req.kind = "register_as_worker"
    /\ opts.requested_port = 0
    /\ from_capnp(req.address).port = fs.tcp

\* C17: accepting a subworker connection leaves the Graph (the whole State)
\* unchanged; graph.subworkers changes only in an add_subworker step, by the
\* entry that call was given; so the map holds only registered subworkers.
C17_AcceptStep == sessions' # sessions => state' = state
C17_InsertStep ==
    state'.graph.subworkers # state.graph.subworkers =>
        /\ last'.op = "add_subworker"
        /\ state'.graph.subworkers =
               Put(state.graph.subworkers, last'.id,
                   [id |-> last'.id, session |-> last'.arg])
C17_OnlyRegistered ==
    \A k \in DOMAIN state.graph.subworkers :
        /\ state.graph.subworkers[k].id = k
        /\ state.graph.subworkers[k].session \in Sessions
C17_SubworkersOnlyByAdd ==
    [](C17_OnlyRegistered) /\ [][C17_AcceptStep /\ C17_InsertStep]_vars
C17_Witness ==
    /\ last.op = "on_subworker_connection"
    /\ sessions = 2
    /\ Cardinality(DOMAIN state.graph.subworkers) = 1

\* C18: upstream is absent and worker_id is the empty sentinel from
\* construction until the registration response is processed; that one step
\* assigns both, from the response; once set, upstream never changes again.
C18_UnsetBeforeResponse ==
    pc # "registered" =>
        /\ state.upstream = NoUpstream
        /\ state.worker_id = empty_worker_id
C18_CommitStep ==
    /\ (state'.upstream # state.upstream \/ state'.worker_id # state.worker_id)
           => /\ pc = "registering" /\ pc' = "registered"
              /\ resp.kind = "response" /\ resp.err = "ok"
              /\ state.upstream = NoUpstream
              /\ state'.upstream = resp.results.cap
              /\ state'.worker_id = from_capnp(resp.results.worker_id)
    /\ (pc # "registered" /\ pc' = "registered")
           => /\ state'.upstream # NoUpstream
              /\ state'.worker_id = from_capnp(resp.results.worker_id)
    /\ state.upstream # NoUpstream => state'.upstream = state.upstream
C19_BorrowsWithinTurn ==
    /\ cell.shared = 0
    /\ ~cell.excl
    /\ ~cell.conflict
C19_Witness ==
    /\ pc = "registered"
    /\ last.op = "on_subworker_connection"
    /\ sessions >= 1
    /\ cell.shared = 0 /\ ~cell.excl

\* C20 (as claimed): workers that registered over distinct connections are
\* recorded under distinct WorkerIds, and the port of a worker's WorkerId is
\* the listen port that worker advertised.
C20_DistinctWorkerIds ==
    /\ \A w1, w2 \in workers : w1.control # w2.control => w1.id # w2.id
    /\ \A w \in workers : \A c \in Peers :
           w.control = c =>
               \A p \in PeerParams(c) : w.id.port = from_capnp(p.address).port

====
